---- MODULE Spec2Model ----
(***************************************************************************)
(* Model of the can-you-checkmate chess engine (chess-engine.ts): geometry *)
(* of knight and king moves, attacked squares, the checkmate analysis with *)
(* its bipartite short-circuit, and the random scenario generator.         *)
(*                                                                         *)
(* A Position is a record [file, rank]; a Position[] is a sequence, kept   *)
(* in the order the code builds it.  A null Position (an absent piece, or  *)
(* a local that is not assigned yet) is the record `null`.                 *)
(***************************************************************************)
EXTENDS Integers, Sequences, FiniteSets, TLC

\* ---------------------------------------------------------------- bounds
\* Boards handed to analyzeCheckmate hold their pieces on the files and
\* ranks 0..MaxCoord of the 8x8 board (or nowhere).
MaxCoord == 2

\* randomPos draws its file from 0..MaxDrawFile and its rank from
\* 0..MaxDrawRank (the code draws both from 0..7).
MaxDrawFile == 3
MaxDrawRank == 1

\* The page's boards lie on ranks 0..MaxPageRank of the files 0..MaxCoord.
MaxPageRank == 1

\* ------------------------------------------------------------- positions
null == [file |-> -100, rank |-> -100]

Pos(f, r) == [file |-> f, rank |-> r]

AllSquares == {Pos(f, r) : f \in 0..7, r \in 0..7}

Region == {Pos(f, r) : f \in 0..MaxCoord, r \in 0..MaxCoord} \cap AllSquares

\* The values randomPos() can return.
randomPos == {Pos(f, r) : f \in 0..MaxDrawFile, r \in 0..MaxDrawRank} \cap AllSquares

Turns == {"white", "black"}

Range(s) == {s[i] : i \in 1..Len(s)}

\* -------------------------------------------------------------- notation
\* A square name is the sequence of the character codes of its text.
\* NaN stands for the number parseInt returns when it finds no digit.
NaN == -1000

\* The decimal digits of n >= 0, as character codes.
RECURSIVE digits(_)
digits(n) == IF n < 10 THEN <<48 + n>> ELSE digits(n \div 10) \o <<48 + (n % 10)>>

\* Number.prototype.toString
toString(n) == IF n < 0 THEN <<45>> \o digits(-n) ELSE digits(n)

\* parseInt(square[1]): the value of the second character when it is a
\* digit, NaN when it is not or when there is no second character.
parseIntSecondChar(square) ==
    IF Len(square) >= 2 /\ square[2] >= 48 /\ square[2] <= 57
    THEN square[2] - 48
    ELSE NaN

\* positionFromSquare without the - 1 on the rank.
positionFromSquare_noOffset(square) ==
    LET file == square[1] - 97
        rank == parseIntSecondChar(square)
    IN  [file |-> file, rank |-> rank]

positionFromSquare(square) ==
    LET file == square[1] - 97
        digit == parseIntSecondChar(square)
        rank == IF digit = NaN THEN NaN ELSE digit - 1
    IN  [file |-> file, rank |-> rank]

squareFromPosition(pos) ==
    LET file == <<97 + pos.file>>
        rank == toString(pos.rank + 1)
    IN  file \o rank

\* -------------------------------------------------------------- geometry
\* isValidPosition letting file and rank 8 through.
isValidPosition_upTo8(pos) ==
    pos.file >= 0 /\ pos.file <= 8 /\ pos.rank >= 0 /\ pos.rank <= 8

isValidPosition(pos) ==
    pos.file >= 0 /\ pos.file <= 7 /\ pos.rank >= 0 /\ pos.rank <= 7

\* isLightSquare looking at the file alone.
isLightSquare_fileOnly(pos) == pos.file % 2 = 0

isLightSquare(pos) == (pos.file + pos.rank) % 2 = 0

\* calculateKnightMoves with one offset mistyped (+1,+1 for +1,+2).
calculateKnightMoves_typo(pos) ==
    SelectSeq(<< Pos(pos.file + 2, pos.rank + 1),
                 Pos(pos.file + 2, pos.rank - 1),
                 Pos(pos.file - 2, pos.rank + 1),
                 Pos(pos.file - 2, pos.rank - 1),
                 Pos(pos.file + 1, pos.rank + 1),
                 Pos(pos.file + 1, pos.rank - 2),
                 Pos(pos.file - 1, pos.rank + 2),
                 Pos(pos.file - 1, pos.rank - 2) >>, isValidPosition)

calculateKnightMoves(pos) ==
    SelectSeq(<< Pos(pos.file + 2, pos.rank + 1),
                 Pos(pos.file + 2, pos.rank - 1),
                 Pos(pos.file - 2, pos.rank + 1),
                 Pos(pos.file - 2, pos.rank - 1),
                 Pos(pos.file + 1, pos.rank + 2),
                 Pos(pos.file + 1, pos.rank - 2),
                 Pos(pos.file - 1, pos.rank + 2),
                 Pos(pos.file - 1, pos.rank - 2) >>, isValidPosition)

calculateKingMoves(pos) ==
    SelectSeq(<< Pos(pos.file + 1, pos.rank),
                 Pos(pos.file - 1, pos.rank),
                 Pos(pos.file, pos.rank + 1),
                 Pos(pos.file, pos.rank - 1),
                 Pos(pos.file + 1, pos.rank + 1),
                 Pos(pos.file + 1, pos.rank - 1),
                 Pos(pos.file - 1, pos.rank + 1),
                 Pos(pos.file - 1, pos.rank - 1) >>, isValidPosition)

\* positionsEqual comparing the file of both positions only.
positionsEqual_fileOnly(pos1, pos2) == pos1.file = pos2.file

positionsEqual(pos1, pos2) == pos1.file = pos2.file /\ pos1.rank = pos2.rank

\* self.findIndex((p) => p.file === pos.file && p.rank === pos.rank),
\* searched from index i on; indices are 1-based, 0 when nothing matches.
RECURSIVE findIndex(_, _, _)
findIndex(self, pos, i) ==
    IF i > Len(self) THEN 0
    ELSE IF self[i].file = pos.file /\ self[i].rank = pos.rank THEN i
    ELSE findIndex(self, pos, i + 1)

\* self.filter((pos, index, self) => index === self.findIndex(...)), from
\* index on: an element is kept when it is the first one equal to it.
RECURSIVE filterFirst(_, _)
filterFirst(self, index) ==
    IF index > Len(self) THEN <<>>
    ELSE (IF index = findIndex(self, self[index], 1) THEN <<self[index]>> ELSE <<>>)
         \o filterFirst(self, index + 1)

\* removeDuplicates that removes nothing.
removeDuplicates_none(attacked) == attacked

\* The "Remove duplicates" filter shared by the two attack functions.
removeDuplicates(attacked) == filterFirst(attacked, 1)

\* getAttackedSquares with the second knight's moves left out.
getAttackedSquares_firstOnly(knight1, knight2) ==
    LET a1 == IF knight1 # null THEN calculateKnightMoves(knight1) ELSE <<>>
    IN  removeDuplicates(a1)

getAttackedSquares(knight1, knight2) ==
    LET a1 == IF knight1 # null THEN calculateKnightMoves(knight1) ELSE <<>>
        a2 == IF knight2 # null THEN calculateKnightMoves(knight2) ELSE <<>>
    IN  removeDuplicates(a1 \o a2)

\* getAllAttackedSquares with the Black King's zone left out.
getAllAttackedSquares_noKing(knight1, knight2, blackKing) ==
    LET a1 == IF knight1 # null THEN calculateKnightMoves(knight1) ELSE <<>>
        a2 == IF knight2 # null THEN calculateKnightMoves(knight2) ELSE <<>>
    IN  removeDuplicates(a1 \o a2)

getAllAttackedSquares(knight1, knight2, blackKing) ==
    LET a1 == IF knight1 # null THEN calculateKnightMoves(knight1) ELSE <<>>
        a2 == IF knight2 # null THEN calculateKnightMoves(knight2) ELSE <<>>
        a3 == IF blackKing # null THEN calculateKingMoves(blackKing) ELSE <<>>
    IN  removeDuplicates(a1 \o a2 \o a3)

\* areKingsAdjacent counting only the squares that share an edge.
areKingsAdjacent_edgeOnly(king1, king2) ==
    LET abs(x) == IF x < 0 THEN -x ELSE x
        fileDiff == abs(king1.file - king2.file)
        rankDiff == abs(king1.rank - king2.rank)
    IN  fileDiff + rankDiff = 1

areKingsAdjacent(king1, king2) ==
    LET abs(x) == IF x < 0 THEN -x ELSE x
        fileDiff == abs(king1.file - king2.file)
        rankDiff == abs(king1.rank - king2.rank)
    IN  fileDiff <= 1 /\ rankDiff <= 1 /\ ~(fileDiff = 0 /\ rankDiff = 0)

\* list.some((p) => positionsEqual(p, pos))
some(list, pos) == \E i \in 1..Len(list) : positionsEqual(list[i], pos)

\* -------------------------------------------------------------- analysis
\* The reason text is kept as its template and the values interpolated
\* into it: tag names the template, colour the colour word of the
\* bipartite template ("dark" for the word 어두운, "light" for 밝은), count the
\* number put into the escape-count template.
Reason(tag, colour, count) == [tag |-> tag, colour |-> colour, count |-> count]

\* incompleteResult with the turn hard-coded.
incompleteResult_whiteTurn(board) ==
    [canCheckmate    |-> FALSE,
     attackedSquares |-> <<>>,
     escapeSquares   |-> <<>>,
     blockedEscapes  |-> <<>>,
     reason          |-> Reason("incomplete", "", 0),
     isInCheck       |-> FALSE,
     currentTurn     |-> "white"]

incompleteResult(board) ==
    [canCheckmate    |-> FALSE,
     attackedSquares |-> <<>>,
     escapeSquares   |-> <<>>,
     blockedEscapes  |-> <<>>,
     reason          |-> Reason("incomplete", "", 0),
     isInCheck       |-> FALSE,
     currentTurn     |-> board.currentTurn]

\* const isInCheck = knightAttackedSquares.some(...)
isInCheck(knightAttackedSquares, whiteKing) == some(knightAttackedSquares, whiteKing)

\* const escapeSquares = kingMoves.filter(...)
escapeSquares(kingMoves, attackedSquares) ==
    LET notAttacked(move) == ~some(attackedSquares, move)
    IN  SelectSeq(kingMoves, notAttacked)

\* const blockedEscapes = kingMoves.filter(...)
blockedEscapes(kingMoves, attackedSquares) ==
    LET attacked(move) == some(attackedSquares, move)
    IN  SelectSeq(kingMoves, attacked)

\* unattackableEscapes with the two colour classes exchanged.
unattackableEscapes_swapped(escapes, knight1OnLight) ==
    LET dark(pos) == ~isLightSquare(pos)
        lightEscapes == SelectSeq(escapes, isLightSquare)
        darkEscapes == SelectSeq(escapes, dark)
    IN  IF knight1OnLight THEN darkEscapes ELSE lightEscapes

\* const unattackableEscapes = knight1OnLight ? lightEscapes : darkEscapes
unattackableEscapes(escapes, knight1OnLight) ==
    LET dark(pos) == ~isLightSquare(pos)
        lightEscapes == SelectSeq(escapes, isLightSquare)
        darkEscapes == SelectSeq(escapes, dark)
    IN  IF knight1OnLight THEN lightEscapes ELSE darkEscapes

\* The colour word interpolated into the bipartite reason.
reasonColour(knight1OnLight) == IF knight1OnLight THEN "dark" ELSE "light"

\* canCheckmate without the check condition.
canCheckmate_noCheck(inCheck, escapes) == Len(escapes) = 0

\* canCheckmate with || in place of &&.
canCheckmate_or(inCheck, escapes) == inCheck \/ Len(escapes) = 0

\* const canCheckmate = isInCheck && escapeSquares.length === 0
canCheckmate(inCheck, escapes) == inCheck /\ Len(escapes) = 0

analyzeCheckmate(board) ==
    IF board.whiteKing = null \/ board.blackKing = null
       \/ board.knight1 = null \/ board.knight2 = null
    THEN incompleteResult(board)
    ELSE
      LET attackedSquares == getAllAttackedSquares(board.knight1, board.knight2, board.blackKing)
          kingMoves == calculateKingMoves(board.whiteKing)
          knightAttackedSquares == getAttackedSquares(board.knight1, board.knight2)
          inCheck == isInCheck(knightAttackedSquares, board.whiteKing)
          escapes == escapeSquares(kingMoves, attackedSquares)
          blocked == blockedEscapes(kingMoves, attackedSquares)
          knight1OnLight == isLightSquare(board.knight1)
          knight2OnLight == isLightSquare(board.knight2)
          mate == canCheckmate(inCheck, escapes)
      IN  IF knight1OnLight = knight2OnLight
             /\ Len(unattackableEscapes(escapes, knight1OnLight)) > 0
          THEN [canCheckmate    |-> FALSE,
                attackedSquares |-> knightAttackedSquares,
                escapeSquares   |-> escapes,
                blockedEscapes  |-> blocked,
                reason          |-> Reason("bipartite", reasonColour(knight1OnLight), 0),
                isInCheck       |-> inCheck,
                currentTurn     |-> board.currentTurn]
          ELSE [canCheckmate    |-> mate,
                attackedSquares |-> knightAttackedSquares,
                escapeSquares   |-> escapes,
                blockedEscapes  |-> blocked,
                reason          |-> IF mate THEN Reason("checkmate", "", 0)
                                    ELSE IF Len(escapes) > 0
                                         THEN Reason("escapes", "", Len(escapes))
                                         ELSE Reason("notInCheck", "", 0),
                isInCheck       |-> inCheck,
                currentTurn     |-> board.currentTurn]

\* ------------------------------------------ legal moves, check, proofData
\* isOccupied of getPossibleMoves (and isTargetOccupied of onDrop)
isOccupied(board, targetPos) ==
    \/ (board.whiteKing # null /\ positionsEqual(board.whiteKing, targetPos))
    \/ (board.blackKing # null /\ positionsEqual(board.blackKing, targetPos))
    \/ (board.knight1 # null /\ positionsEqual(board.knight1, targetPos))
    \/ (board.knight2 # null /\ positionsEqual(board.knight2, targetPos))

\* getPossibleMoves without the filter on occupied squares.
getPossibleMoves_noOccupied(pieceType, position, board) ==
    LET possibleMoves ==
            IF pieceType = "wK" \/ pieceType = "bK" THEN calculateKingMoves(position)
            ELSE IF pieceType = "bN" THEN calculateKnightMoves(position)
            ELSE <<>>
        otherKing == IF pieceType = "wK" THEN board.blackKing ELSE board.whiteKing
        keep(targetPos) ==
            IF (pieceType = "wK" \/ pieceType = "bK")
               /\ otherKing # null /\ areKingsAdjacent(targetPos, otherKing)
            THEN FALSE
            ELSE TRUE
    IN  SelectSeq(possibleMoves, keep)

getPossibleMoves(pieceType, position, board) ==
    LET possibleMoves ==
            IF pieceType = "wK" \/ pieceType = "bK" THEN calculateKingMoves(position)
            ELSE IF pieceType = "bN" THEN calculateKnightMoves(position)
            ELSE <<>>
        otherKing == IF pieceType = "wK" THEN board.blackKing ELSE board.whiteKing
        keep(targetPos) ==
            IF isOccupied(board, targetPos) THEN FALSE
            ELSE IF (pieceType = "wK" \/ pieceType = "bK")
                    /\ otherKing # null /\ areKingsAdjacent(targetPos, otherKing)
                 THEN FALSE
                 ELSE TRUE
    IN  SelectSeq(possibleMoves, keep)

\* if (piece present) { possibleMoves = ...; if (length > 0) moves.push(...) }
pushMoves(pieceType, position, board) ==
    IF position = null THEN <<>>
    ELSE LET possibleMoves == getPossibleMoves(pieceType, position, board)
         IN  IF Len(possibleMoves) > 0
             THEN <<[piece |-> pieceType, from |-> position, to |-> possibleMoves]>>
             ELSE <<>>

getAllPossibleMovesForTurn(board) ==
    IF board.currentTurn = "white"
    THEN pushMoves("wK", board.whiteKing, board)
    ELSE pushMoves("bK", board.blackKing, board)
         \o pushMoves("bN", board.knight1, board)
         \o pushMoves("bN", board.knight2, board)

isCurrentPlayerInCheck(board) ==
    IF board.currentTurn = "white"
    THEN IF board.whiteKing = null THEN FALSE
         ELSE IF board.knight1 # null
                 /\ some(calculateKnightMoves(board.knight1), board.whiteKing) THEN TRUE
         ELSE IF board.knight2 # null
                 /\ some(calculateKnightMoves(board.knight2), board.whiteKing) THEN TRUE
         ELSE IF board.blackKing # null
                 /\ some(calculateKingMoves(board.blackKing), board.whiteKing) THEN TRUE
         ELSE FALSE
    ELSE IF board.blackKing = null \/ board.whiteKing = null THEN FALSE
         ELSE some(calculateKingMoves(board.whiteKing), board.blackKing)

\* The double loop of proofData over deltaFile, deltaRank in -1..1.
kingAdjacentSquares(whiteKingPos) ==
    SelectSeq(<< Pos(whiteKingPos.file - 1, whiteKingPos.rank - 1),
                 Pos(whiteKingPos.file - 1, whiteKingPos.rank),
                 Pos(whiteKingPos.file - 1, whiteKingPos.rank + 1),
                 Pos(whiteKingPos.file, whiteKingPos.rank - 1),
                 Pos(whiteKingPos.file, whiteKingPos.rank + 1),
                 Pos(whiteKingPos.file + 1, whiteKingPos.rank - 1),
                 Pos(whiteKingPos.file + 1, whiteKingPos.rank),
                 Pos(whiteKingPos.file + 1, whiteKingPos.rank + 1) >>, isValidPosition)

\* The proofData memo of the page; null when a knight or the White King
\* is absent.
proofData(boardState) ==
    IF boardState.knight1 = null \/ boardState.knight2 = null
       \/ boardState.whiteKing = null
    THEN null
    ELSE
      LET dark(pos) == ~isLightSquare(pos)
          knight1IsLight == isLightSquare(boardState.knight1)
          knight2IsLight == isLightSquare(boardState.knight2)
          sameColorKnights == knight1IsLight = knight2IsLight
          adjacent == kingAdjacentSquares(boardState.whiteKing)
          lightSquares == SelectSeq(adjacent, isLightSquare)
          darkSquares == SelectSeq(adjacent, dark)
          totalKnightAttacks == calculateKnightMoves(boardState.knight1)
                                \o calculateKnightMoves(boardState.knight2)
      IN  [sameColorKnights     |-> sameColorKnights,
           knight1IsLight       |-> knight1IsLight,
           knight2IsLight       |-> knight2IsLight,
           totalSquares         |-> Len(adjacent),
           lightSquares         |-> Len(lightSquares),
           darkSquares          |-> Len(darkSquares),
           attackedLightSquares |-> Len(SelectSeq(totalKnightAttacks, isLightSquare)),
           attackedDarkSquares  |-> Len(SelectSeq(totalKnightAttacks, dark)),
           lightSquarePositions |-> lightSquares,
           darkSquarePositions  |-> darkSquares,
           unattackableSquares  |-> IF sameColorKnights
                                    THEN (IF knight1IsLight THEN darkSquares ELSE lightSquares)
                                    ELSE <<>>]

\* --------------------------------------------------- moves made on the page
isValidKnightMove(from, to) ==
    LET validMoves == calculateKnightMoves(from)
    IN  some(validMoves, to)

isValidKingMove(from, to) ==
    LET validMoves == calculateKingMoves(from)
    IN  some(validMoves, to)

isValidPieceMove(pieceType, from, to) ==
    IF pieceType = "wK" \/ pieceType = "bK" THEN isValidKingMove(from, to)
    ELSE IF pieceType = "bN" THEN isValidKnightMove(from, to)
    ELSE FALSE

\* pieceType.startsWith(letter), on the piece types the page shows.
startsWith(pieceType, letter) ==
    IF letter = "w" THEN pieceType \in {"wK"} ELSE pieceType \in {"bK", "bN"}

isPieceForCurrentTurn(pieceType, currentTurn) ==
    IF currentTurn = "white" THEN startsWith(pieceType, "w")
    ELSE startsWith(pieceType, "b")

\* switchTurn that returns the turn it was given.
switchTurn_same(currentTurn) == currentTurn

switchTurn(currentTurn) == IF currentTurn = "white" THEN "black" ELSE "white"

\* The page's boardPosition: square text -> piece type. The pieces are
\* written in the order wK, bK, bN, bN and a later write to the same square
\* replaces the earlier one.
boardPosition(boardState) ==
    LET all == << <<boardState.whiteKing, "wK">>, <<boardState.blackKing, "bK">>,
                  <<boardState.knight1, "bN">>, <<boardState.knight2, "bN">> >>
        present == {i \in 1..4 : all[i][1] # null}
        last(sq) == CHOOSE i \in present :
                       /\ squareFromPosition(all[i][1]) = sq
                       /\ \A j \in present :
                             squareFromPosition(all[j][1]) = sq => j <= i
    IN  [sq \in {squareFromPosition(all[i][1]) : i \in present} |-> all[last(sq)][2]]

\* The absent targetSquare of a drop outside the board.
noSquare == <<>>

\* onDrop without the test on the other king.
onDrop_noKingTest(boardState, pieceType, sourceSquare, targetSquare) ==
    LET rejected == [accepted |-> FALSE, boardState |-> boardState]
        sourcePos == positionFromSquare(sourceSquare)
        targetPos == positionFromSquare(targetSquare)
        moved ==
            IF pieceType = "wK" THEN [boardState EXCEPT !.whiteKing = targetPos]
            ELSE IF pieceType = "bK" THEN [boardState EXCEPT !.blackKing = targetPos]
            ELSE IF pieceType = "bN"
            THEN IF boardState.knight1 # null /\ positionsEqual(boardState.knight1, sourcePos)
                 THEN [boardState EXCEPT !.knight1 = targetPos]
                 ELSE IF boardState.knight2 # null /\ positionsEqual(boardState.knight2, sourcePos)
                 THEN [boardState EXCEPT !.knight2 = targetPos]
                 ELSE boardState
            ELSE boardState
    IN  IF targetSquare = noSquare \/ pieceType = "" \/ sourceSquare = noSquare THEN rejected
        ELSE IF ~isPieceForCurrentTurn(pieceType, boardState.currentTurn) THEN rejected
        ELSE IF ~isValidPieceMove(pieceType, sourcePos, targetPos) THEN rejected
        ELSE IF isOccupied(boardState, targetPos) THEN rejected
        ELSE [accepted |-> TRUE,
              boardState |-> [moved EXCEPT !.currentTurn = switchTurn(boardState.currentTurn)]]

\* onDrop: the value it returns and the board state it leaves.
onDrop(boardState, pieceType, sourceSquare, targetSquare) ==
    LET rejected == [accepted |-> FALSE, boardState |-> boardState]
        sourcePos == positionFromSquare(sourceSquare)
        targetPos == positionFromSquare(targetSquare)
        isKingMove == pieceType = "wK" \/ pieceType = "bK"
        otherKing == IF pieceType = "wK" THEN boardState.blackKing ELSE boardState.whiteKing
        moved ==
            IF pieceType = "wK" THEN [boardState EXCEPT !.whiteKing = targetPos]
            ELSE IF pieceType = "bK" THEN [boardState EXCEPT !.blackKing = targetPos]
            ELSE IF pieceType = "bN"
            THEN IF boardState.knight1 # null /\ positionsEqual(boardState.knight1, sourcePos)
                 THEN [boardState EXCEPT !.knight1 = targetPos]
                 ELSE IF boardState.knight2 # null /\ positionsEqual(boardState.knight2, sourcePos)
                 THEN [boardState EXCEPT !.knight2 = targetPos]
                 ELSE boardState
            ELSE boardState
    IN  IF targetSquare = noSquare \/ pieceType = "" \/ sourceSquare = noSquare THEN rejected
        ELSE IF ~isPieceForCurrentTurn(pieceType, boardState.currentTurn) THEN rejected
        ELSE IF ~isValidPieceMove(pieceType, sourcePos, targetPos) THEN rejected
        ELSE IF isOccupied(boardState, targetPos) THEN rejected
        ELSE IF isKingMove /\ otherKing # null /\ areKingsAdjacent(targetPos, otherKing)
        THEN rejected
        ELSE [accepted |-> TRUE,
              boardState |-> [moved EXCEPT !.currentTurn = switchTurn(boardState.currentTurn)]]

\* ----------------------------------------------------------------- state
VARIABLES
    pc,       \* where the running call stands
    board,    \* the BoardState handed to analyzeCheckmate / returned by a generator
    result,   \* the AnalysisResult analyzeCheckmate returned
    coord,    \* the Position handed to a geometry function
    moves,    \* the Position[] the geometry function returned
    gen,      \* the locals of generateRandomScenario
    ret,      \* the value returned by the last call of another function
    currentStep,     \* the page's proof step shown, an index into PROOF_STEPS
    isAutoPlaying,   \* whether the page steps through the proof by itself
    timeRemaining,   \* seconds until autoplay takes the next step
    showProofSteps   \* whether the page shows the proof steps

\* The page's proof controls, which only the page's handlers touch.
proofControls == <<currentStep, isAutoPlaying, timeRemaining, showProofSteps>>

vars == <<pc, board, result, coord, moves, gen, ret, proofControls>>

\* useState(0), useState(false), useState(3), useState(true)
proofControlsStart ==
    /\ currentStep = 0
    /\ isAutoPlaying = FALSE
    /\ timeRemaining = 3
    /\ showProofSteps = TRUE

\* The value of ret before any call has returned.
noRet == <<>>

\* The value of result before any call has returned.
noResult ==
    [canCheckmate    |-> FALSE,
     attackedSquares |-> <<>>,
     escapeSquares   |-> <<>>,
     blockedEscapes  |-> <<>>,
     reason          |-> Reason("none", "", 0),
     isInCheck       |-> FALSE,
     currentTurn     |-> "white"]

\* The value of board before a generator has returned.
noBoard ==
    [whiteKing |-> null, blackKing |-> null, knight1 |-> null, knight2 |-> null,
     currentTurn |-> "white"]

\* The locals of generateRandomScenario on entry: the four positions are
\* declared and not assigned, attempts = 0.
genStart ==
    [whiteKing |-> null, blackKing |-> null, knight1 |-> null, knight2 |-> null,
     attempts |-> 0]

Boards ==
    [whiteKing : Region \cup {null}, blackKing : Region \cup {null},
     knight1 : Region \cup {null}, knight2 : Region \cup {null},
     currentTurn : Turns]

Complete(b) ==
    b.whiteKing # null /\ b.blackKing # null /\ b.knight1 # null /\ b.knight2 # null

\* ------------------------------------------- analyzeCheckmate on a board
\* analyzeCheckmate applied to any board over the region, complete or not,
\* legal or not.
InitAnalyze ==
    /\ pc = "ready"
    /\ board \in Boards
    /\ result = noResult
    /\ coord = null
    /\ moves = <<>>
    /\ gen = genStart
    /\ ret = noRet
    /\ proofControlsStart

Analyze ==
    /\ pc = "ready"
    /\ result' = analyzeCheckmate(board)
    /\ pc' = "analyzed"
    /\ UNCHANGED <<proofControls, board, coord, moves, gen, ret>>

NextAnalyze == Analyze

SpecAnalyze == InitAnalyze /\ [][NextAnalyze]_vars

\* ------------------------------------- the geometry functions on a square
InitGeometry ==
    /\ pc = "ready"
    /\ coord \in AllSquares
    /\ moves = <<>>
    /\ board = noBoard
    /\ result = noResult
    /\ gen = genStart
    /\ ret = noRet
    /\ proofControlsStart

KnightMoves ==
    /\ pc = "ready"
    /\ moves' = calculateKnightMoves(coord)
    /\ pc' = "knightMoves"
    /\ UNCHANGED <<proofControls, board, result, coord, gen, ret>>

KingMoves ==
    /\ pc = "ready"
    /\ moves' = calculateKingMoves(coord)
    /\ pc' = "kingMoves"
    /\ UNCHANGED <<proofControls, board, result, coord, gen, ret>>

\* squareFromPosition, then positionFromSquare on the text it returned.
RoundTrip ==
    /\ pc = "ready"
    /\ ret' = [square   |-> squareFromPosition(coord),
               position |-> positionFromSquare(squareFromPosition(coord))]
    /\ pc' = "roundTrip"
    /\ UNCHANGED <<proofControls, board, result, coord, moves, gen>>

NextGeometry == KnightMoves \/ KingMoves \/ RoundTrip

SpecGeometry == InitGeometry /\ [][NextGeometry]_vars

\* ------------------------------------------------ generateRandomScenario
\* maxAttempts letting one more pass through.
maxAttempts_more == 100 + 1

maxAttempts == 100

\* while-condition of the first do-loop
kingsRejected(whiteKing, blackKing) ==
    positionsEqual(whiteKing, blackKing) \/ areKingsAdjacent(whiteKing, blackKing)

\* while-condition of the second do-loop
knightsRejected(knight1, knight2, whiteKing, blackKing) ==
    \/ positionsEqual(knight1, knight2)
    \/ positionsEqual(knight1, whiteKing)
    \/ positionsEqual(knight1, blackKing)
    \/ positionsEqual(knight2, whiteKing)
    \/ positionsEqual(knight2, blackKing)

InitGenerate ==
    /\ pc = "kings"
    /\ gen = genStart
    /\ board = noBoard
    /\ result = noResult
    /\ coord = null
    /\ moves = <<>>
    /\ ret = noRet
    /\ proofControlsStart

\* Each action below is one pass of a do-loop.  A pair that fails the
\* while-condition is assigned again by the next pass before anything reads
\* it, so gen keeps a pair only from the pass that leaves the loop.

\* A pass of the first loop within maxAttempts whose pair fails the
\* while-condition: the loop goes round again.
KingsRetry ==
    /\ pc = "kings"
    /\ gen.attempts + 1 <= maxAttempts
    /\ \E wk \in randomPos, bk \in randomPos : kingsRejected(wk, bk)
    /\ gen' = [gen EXCEPT !.attempts = gen.attempts + 1]
    /\ pc' = "kings"
    /\ UNCHANGED <<proofControls, board, result, coord, moves, ret>>

\* A pass within maxAttempts whose pair passes: the loop ends, and
\* attempts = 0 is executed ahead of the second loop.
KingsAccept ==
    /\ pc = "kings"
    /\ gen.attempts + 1 <= maxAttempts
    /\ \E wk \in randomPos, bk \in randomPos :
          /\ ~kingsRejected(wk, bk)
          /\ gen' = [gen EXCEPT !.whiteKing = wk, !.blackKing = bk, !.attempts = 0]
    /\ pc' = "knights"
    /\ UNCHANGED <<proofControls, board, result, coord, moves, ret>>

\* The pass that finds attempts > maxAttempts: the drawn pair is replaced
\* by the fallback and the loop is left by break.
KingsFallback ==
    /\ pc = "kings"
    /\ gen.attempts + 1 > maxAttempts
    /\ \E wk \in randomPos, bk \in randomPos : TRUE
    /\ gen' = [gen EXCEPT !.whiteKing = Pos(3, 3), !.blackKing = Pos(7, 7),
                          !.attempts = 0]
    /\ pc' = "knights"
    /\ UNCHANGED <<proofControls, board, result, coord, moves, ret>>

\* return { whiteKing, blackKing, knight1, knight2, currentTurn: 'white' }
\* The locals do not outlive the return: gen goes back to genStart.
returnedBoard(g) ==
    [whiteKing |-> g.whiteKing, blackKing |-> g.blackKing,
     knight1 |-> g.knight1, knight2 |-> g.knight2, currentTurn |-> "white"]

KnightsRetry ==
    /\ pc = "knights"
    /\ gen.attempts + 1 <= maxAttempts
    /\ \E n1 \in randomPos, n2 \in randomPos :
          knightsRejected(n1, n2, gen.whiteKing, gen.blackKing)
    /\ gen' = [gen EXCEPT !.attempts = gen.attempts + 1]
    /\ pc' = "knights"
    /\ UNCHANGED <<proofControls, board, result, coord, moves, ret>>

KnightsAccept ==
    /\ pc = "knights"
    /\ gen.attempts + 1 <= maxAttempts
    /\ \E n1 \in randomPos, n2 \in randomPos :
          /\ ~knightsRejected(n1, n2, gen.whiteKing, gen.blackKing)
          /\ board' = returnedBoard([gen EXCEPT !.knight1 = n1, !.knight2 = n2,
                                                !.attempts = gen.attempts + 1])
    /\ gen' = genStart
    /\ pc' = "returned"
    /\ UNCHANGED <<proofControls, result, coord, moves, ret>>

KnightsFallback ==
    /\ pc = "knights"
    /\ gen.attempts + 1 > maxAttempts
    /\ \E n1 \in randomPos, n2 \in randomPos : TRUE
    /\ board' = returnedBoard([gen EXCEPT !.knight1 = Pos(1, 1), !.knight2 = Pos(5, 5),
                                          !.attempts = gen.attempts + 1])
    /\ gen' = genStart
    /\ pc' = "returned"
    /\ UNCHANGED <<proofControls, result, coord, moves, ret>>

NextGenerate ==
    \/ KingsRetry \/ KingsAccept \/ KingsFallback
    \/ KnightsRetry \/ KnightsAccept \/ KnightsFallback

SpecGenerate == InitGenerate /\ [][NextGenerate]_vars

\* The function runs to its return once called: a pass of a loop that can
\* be made is made.  This is weak fairness of NextGenerate, WF_vars(NextGenerate),
\* written out as []<>~ENABLED <<NextGenerate>>_vars \/ []<><<NextGenerate>>_vars :
\* a pass can be made exactly when pc is not "returned", and every step of
\* SpecGenerate that changes vars is a NextGenerate step.
SpecGenerateFair ==
    SpecGenerate /\ ([]<>(pc = "returned") \/ []<><<TRUE>>_vars)

\* ------------------------------------------------- the fixed scenarios
generateOptimalAttackScenario ==
    [whiteKing |-> Pos(3, 3), blackKing |-> Pos(0, 7),
     knight1 |-> Pos(1, 2), knight2 |-> Pos(5, 2), currentTurn |-> "white"]

\* generateCounterexample with knight2 one rank lower (f5).
generateCounterexample_f5 ==
    [whiteKing |-> Pos(3, 3), blackKing |-> Pos(7, 0),
     knight1 |-> Pos(1, 1), knight2 |-> Pos(5, 4), currentTurn |-> "white"]

generateCounterexample ==
    [whiteKing |-> Pos(3, 3), blackKing |-> Pos(7, 0),
     knight1 |-> Pos(1, 1), knight2 |-> Pos(5, 5), currentTurn |-> "white"]

\* Boards with the White King on d4 and the knights on b2/f6, b3/c2 or
\* b3/f3, the Black King on any square, either side to move.
ScenarioBoards ==
    {[whiteKing |-> Pos(3, 3), blackKing |-> bk,
      knight1 |-> kn[1], knight2 |-> kn[2], currentTurn |-> t] :
        bk \in AllSquares,
        kn \in {<<Pos(1, 1), Pos(5, 5)>>, <<Pos(1, 2), Pos(2, 1)>>, <<Pos(1, 2), Pos(5, 2)>>},
        t \in Turns}

InitScenario ==
    /\ pc = "ready"
    /\ board \in ScenarioBoards
    /\ result = noResult
    /\ coord = null
    /\ moves = <<>>
    /\ gen = genStart
    /\ ret = noRet
    /\ proofControlsStart

OptimalAttack ==
    /\ pc = "ready"
    /\ board' = generateOptimalAttackScenario
    /\ pc' = "optimal"
    /\ UNCHANGED <<proofControls, result, coord, moves, gen, ret>>

Counterexample ==
    /\ pc = "ready"
    /\ board' = generateCounterexample
    /\ pc' = "counterexample"
    /\ UNCHANGED <<proofControls, result, coord, moves, gen, ret>>

NextScenario == OptimalAttack \/ Counterexample \/ Analyze

SpecScenario == InitScenario /\ [][NextScenario]_vars

\* ------------------------------- legal moves, check, proofData on a board
\* The three functions applied to any board over the region.
InitQueries ==
    /\ pc = "ready"
    /\ board \in Boards
    /\ result = noResult
    /\ coord = null
    /\ moves = <<>>
    /\ gen = genStart
    /\ ret = noRet
    /\ proofControlsStart

AllPossibleMovesForTurn ==
    /\ pc = "ready"
    /\ ret' = getAllPossibleMovesForTurn(board)
    /\ pc' = "allMoves"
    /\ UNCHANGED <<proofControls, board, result, coord, moves, gen>>

CurrentPlayerInCheck ==
    /\ pc = "ready"
    /\ ret' = isCurrentPlayerInCheck(board)
    /\ pc' = "inCheck"
    /\ UNCHANGED <<proofControls, board, result, coord, moves, gen>>

ProofData ==
    /\ pc = "ready"
    /\ ret' = proofData(board)
    /\ pc' = "proofData"
    /\ UNCHANGED <<proofControls, board, result, coord, moves, gen>>

NextQueries == AllPossibleMovesForTurn \/ CurrentPlayerInCheck \/ ProofData

SpecQueries == InitQueries /\ [][NextQueries]_vars

\* --------------------------------- getAttackedSquares on a pair of knights
\* Each knight argument is any square of the board or null.
InitAttack ==
    /\ pc = "ready"
    /\ \E a \in AllSquares \cup {null}, b \in AllSquares \cup {null} :
          board = [noBoard EXCEPT !.knight1 = a, !.knight2 = b]
    /\ result = noResult
    /\ coord = null
    /\ moves = <<>>
    /\ gen = genStart
    /\ ret = noRet
    /\ proofControlsStart

\* getAttackedSquares called with the knights in both orders.
AttackedSquares ==
    /\ pc = "ready"
    /\ ret' = [ab |-> getAttackedSquares(board.knight1, board.knight2),
               ba |-> getAttackedSquares(board.knight2, board.knight1)]
    /\ pc' = "attacked"
    /\ UNCHANGED <<proofControls, board, result, coord, moves, gen>>

NextAttack == AttackedSquares

SpecAttack == InitAttack /\ [][NextAttack]_vars

\* ------------------------------------------------- properties of analysis
\* Geometry stated from the coordinates, independently of the move lists.
Abs(x) == IF x < 0 THEN -x ELSE x

KnightTarget(from, to) ==
    /\ to \in AllSquares
    /\ {Abs(to.file - from.file), Abs(to.rank - from.rank)} = {1, 2}

Chebyshev(a, b) ==
    IF Abs(a.file - b.file) > Abs(a.rank - b.rank)
    THEN Abs(a.file - b.file) ELSE Abs(a.rank - b.rank)

Neighbours(c) == {s \in AllSquares : Chebyshev(s, c) = 1}

\* The data-model invariants of a complete board.
ValidBoard(b) ==
    /\ Complete(b)
    /\ {b.whiteKing, b.blackKing, b.knight1, b.knight2} \subseteq AllSquares
    /\ Cardinality({b.whiteKing, b.blackKing, b.knight1, b.knight2}) = 4
    /\ Chebyshev(b.whiteKing, b.blackKing) > 1

SameColourKnights(b) == isLightSquare(b.knight1) = isLightSquare(b.knight2)

\* Escape squares of the knights' own colour class.
OwnColourEscapes(b, res) ==
    {e \in Range(res.escapeSquares) : isLightSquare(e) = isLightSquare(b.knight1)}

Analyzed == pc = "analyzed"

\* C1: on every complete board that satisfies the data-model invariants and
\* has both knights on one colour class, analyzeCheckmate returns
\* canCheckmate = false, whichever side is to move.
C1_SameColourNeverMates ==
    (Analyzed /\ ValidBoard(board) /\ SameColourKnights(board))
        => result.canCheckmate = FALSE

\* C1 witness: a legal same-colour board that passes the short-circuit
\* (no escape square at all) and is still not checkmate.
C1_Witness ==
    /\ Analyzed /\ ValidBoard(board) /\ SameColourKnights(board)
    /\ Len(result.escapeSquares) = 0
    /\ board.currentTurn = "black"

\* C2: when both knights share a colour class and some escape square has
\* that colour, the result has canCheckmate = false, attackedSquares is the
\* knights-only attack set, and no escape square of that colour is a
\* knight-move target of either knight.
C2_ShortCircuitResult ==
    (Analyzed /\ Complete(board) /\ SameColourKnights(board)
       /\ OwnColourEscapes(board, result) # {})
        => /\ result.canCheckmate = FALSE
           /\ Range(result.attackedSquares) =
                {s \in AllSquares : KnightTarget(board.knight1, s)
                                      \/ KnightTarget(board.knight2, s)}
           /\ Cardinality(Range(result.attackedSquares)) = Len(result.attackedSquares)
           /\ \A e \in OwnColourEscapes(board, result) :
                ~KnightTarget(board.knight1, e) /\ ~KnightTarget(board.knight2, e)

\* C2 witness: the short-circuit taken on a board where the Black King
\* stands next to squares the knights do not attack, and the king is in check.
C2_Witness ==
    /\ Analyzed /\ ValidBoard(board) /\ SameColourKnights(board)
    /\ OwnColourEscapes(board, result) # {}
    /\ result.isInCheck
    /\ \E s \in Neighbours(board.blackKing) :
          ~KnightTarget(board.knight1, s) /\ ~KnightTarget(board.knight2, s)

\* C3: the reason of the same-colour short-circuit names the knights' own
\* colour class: light when both knights stand on light squares, dark when
\* both stand on dark squares.
C3_ReasonNamesOwnColour ==
    (Analyzed /\ result.reason.tag = "bipartite")
        => result.reason.colour =
             (IF isLightSquare(board.knight1) THEN "light" ELSE "dark")

\* C4: on every complete board canCheckmate is true exactly when isInCheck
\* is true and escapeSquares is empty, whichever branch returned.
C4_VerdictFormula ==
    (Analyzed /\ Complete(board))
        => (result.canCheckmate <=> (result.isInCheck /\ Len(result.escapeSquares) = 0))

\* C4 witness: a legal board on which the verdict is checkmate.
C4_Witness == Analyzed /\ ValidBoard(board) /\ result.canCheckmate

\* C5: isInCheck is true exactly when the White King's square is a
\* knight-move target of knight1 or knight2; the Black King plays no part.
C5_CheckByKnightsOnly ==
    (Analyzed /\ Complete(board))
        => (result.isInCheck <=> (KnightTarget(board.knight1, board.whiteKing)
                                   \/ KnightTarget(board.knight2, board.whiteKing)))

\* C5 witness: the Black King stands next to the White King and the result
\* reports no check.
C5_Witness ==
    /\ Analyzed /\ Complete(board)
    /\ Cardinality({board.whiteKing, board.blackKing, board.knight1, board.knight2}) = 4
    /\ Chebyshev(board.whiteKing, board.blackKing) = 1
    /\ ~result.isInCheck

\* C6: escapeSquares is exactly the White King's in-bounds neighbours that
\* are neither a knight-move target nor adjacent to the Black King,
\* blockedEscapes is the rest, the two are disjoint and together make up
\* calculateKingMoves(whiteKing).
C6_EscapeAndBlocked ==
    (Analyzed /\ Complete(board))
        => LET safe == {m \in Neighbours(board.whiteKing) :
                          /\ ~KnightTarget(board.knight1, m)
                          /\ ~KnightTarget(board.knight2, m)
                          /\ Chebyshev(m, board.blackKing) # 1}
           IN  /\ Range(result.escapeSquares) = safe
               /\ Range(result.blockedEscapes) = Neighbours(board.whiteKing) \ safe
               /\ Range(result.escapeSquares) \cap Range(result.blockedEscapes) = {}
               /\ Range(result.escapeSquares) \cup Range(result.blockedEscapes)
                    = Range(calculateKingMoves(board.whiteKing))
               /\ Len(result.escapeSquares) + Len(result.blockedEscapes)
                    = Len(calculateKingMoves(board.whiteKing))

\* C6 witness: a neighbour blocked by the Black King alone, one blocked by a
\* knight alone, and one that is free.
C6_Witness ==
    /\ Analyzed /\ ValidBoard(board)
    /\ Len(result.escapeSquares) > 0
    /\ \E m \in Range(result.blockedEscapes) :
          /\ Chebyshev(m, board.blackKing) = 1
          /\ ~KnightTarget(board.knight1, m) /\ ~KnightTarget(board.knight2, m)
    /\ \E m \in Range(result.blockedEscapes) :
          /\ Chebyshev(m, board.blackKing) # 1
          /\ KnightTarget(board.knight1, m) \/ KnightTarget(board.knight2, m)

\* C7: when any of the four pieces is absent the result is the inconclusive
\* one: no checkmate, no check, three empty lists, the incomplete-placement
\* reason, and the board's own currentTurn.
C7_IncompleteBoard ==
    (Analyzed /\ ~Complete(board))
        => /\ result.canCheckmate = FALSE
           /\ result.isInCheck = FALSE
           /\ result.attackedSquares = <<>>
           /\ result.escapeSquares = <<>>
           /\ result.blockedEscapes = <<>>
           /\ result.reason.tag = "incomplete"
           /\ result.currentTurn = board.currentTurn

\* C7 witness: only knight2 is missing, a knight attacks the White King,
\* and Black is to move.
C7_Witness ==
    /\ Analyzed
    /\ board.knight2 = null /\ board.whiteKing # null /\ board.blackKing # null
    /\ board.knight1 # null
    /\ KnightTarget(board.knight1, board.whiteKing)
    /\ board.currentTurn = "black"

\* ------------------------------------------------- properties of geometry
\* C8: every square calculateKnightMoves returns has the colour opposite to
\* the square it was called on.
C8_KnightMovesFlipColour ==
    pc = "knightMoves"
        => \A i \in 1..Len(moves) : isLightSquare(moves[i]) # isLightSquare(coord)

\* C8 witness: a square with all eight knight moves on the board.
C8_Witness == pc = "knightMoves" /\ Len(moves) = 8

LightSquares == {c \in AllSquares : isLightSquare(c)}

\* C9 as stated: 32 light and 32 dark squares, and every square
\* calculateKingMoves returns, diagonals included, differs in colour from
\* the square it was called on.
C9_AllNeighboursDiffer ==
    /\ Cardinality(LightSquares) = 32
    /\ Cardinality(AllSquares \ LightSquares) = 32
    /\ pc = "kingMoves"
         => \A i \in 1..Len(moves) : isLightSquare(moves[i]) # isLightSquare(coord)

\* C9 amended: 32 light and 32 dark squares; a square calculateKingMoves
\* returns differs in colour from the square it was called on exactly when
\* it shares the file or the rank with it; diagonal neighbours have the
\* same colour.
C9_EdgeNeighboursDiffer ==
    /\ Cardinality(LightSquares) = 32
    /\ Cardinality(AllSquares \ LightSquares) = 32
    /\ pc = "kingMoves"
         => \A i \in 1..Len(moves) :
               (isLightSquare(moves[i]) # isLightSquare(coord))
                 <=> (moves[i].file = coord.file \/ moves[i].rank = coord.rank)

\* C9 witness: a square with all eight king moves on the board.
C9_Witness == pc = "kingMoves" /\ Len(moves) = 8

\* ------------------------------------------- properties of the generator
\* C10: whatever the draws, fallbacks included, generateRandomScenario
\* returns a board with the four pieces present and in bounds, the kings
\* neither on one square nor adjacent, no knight on the square of another
\* piece, and White to move.
C10_RandomScenarioValid ==
    pc = "returned" => (ValidBoard(board) /\ board.currentTurn = "white")

\* ------------------------------------------ properties of the scenarios
\* C11: generateOptimalAttackScenario and generateCounterexample each return
\* a board with the four pieces present and in bounds, on four different
\* squares, the kings not adjacent, and White to move; the counterexample
\* has both knights on one colour class.
C11_FixedScenariosValid ==
    /\ pc \in {"optimal", "counterexample"}
         => (ValidBoard(board) /\ board.currentTurn = "white")
    /\ pc = "counterexample" => SameColourKnights(board)

\* C11 witness: generateCounterexample has returned.
C11_Witness == pc = "counterexample" /\ board.knight2 = Pos(5, 5)

\* C12: with the White King on d4, the knights on b2 and f6 and the Black
\* King on h8 or on h1 (the board of generateCounterexample), the analysis
\* returns through the same-colour short-circuit: canCheckmate = false and
\* some escape square has the knights' colour.
C12_CounterexampleShortCircuits ==
    (/\ Analyzed
     /\ board.whiteKing = Pos(3, 3)
     /\ board.knight1 = Pos(1, 1) /\ board.knight2 = Pos(5, 5)
     /\ board.blackKing \in {Pos(7, 7), Pos(7, 0)})
        => /\ result.canCheckmate = FALSE
           /\ result.reason.tag = "bipartite"
           /\ OwnColourEscapes(board, result) # {}
           /\ isLightSquare(board.knight1) /\ isLightSquare(board.knight2)
           /\ (board.blackKing = Pos(7, 0) /\ board.currentTurn = "white")
                 => board = generateCounterexample

\* C12 witness: the board of generateCounterexample analysed.
C12_Witness ==
    Analyzed /\ board = generateCounterexample /\ result.reason.tag = "bipartite"

\* C13: with the White King on d4 and the knights on b3 and c2, or on b3
\* and f3 as generateOptimalAttackScenario places them, for every Black
\* King square that keeps the board valid both knights attack d4, isInCheck
\* is true and canCheckmate is false with escape squares left.
C13_DoubleCheckNoMate ==
    (/\ Analyzed
     /\ ValidBoard(board)
     /\ board.whiteKing = Pos(3, 3)
     /\ board.knight1 = Pos(1, 2)
     /\ board.knight2 \in {Pos(2, 1), Pos(5, 2)})
        => /\ some(calculateKnightMoves(board.knight1), board.whiteKing)
           /\ some(calculateKnightMoves(board.knight2), board.whiteKing)
           /\ result.isInCheck
           /\ result.canCheckmate = FALSE
           /\ Len(result.escapeSquares) > 0
           /\ generateOptimalAttackScenario.knight1 = Pos(1, 2)
           /\ generateOptimalAttackScenario.knight2 = Pos(5, 2)
           /\ generateOptimalAttackScenario.whiteKing = Pos(3, 3)

\* C13 witness: knights on b3 and c2 and the Black King two squares from
\* the White King, covering some of its neighbours.
C13_Witness ==
    /\ Analyzed /\ ValidBoard(board)
    /\ board.knight1 = Pos(1, 2) /\ board.knight2 = Pos(2, 1)
    /\ Chebyshev(board.whiteKing, board.blackKing) = 2
    /\ result.isInCheck

\* ---------------------------------- properties of legal moves and check
\* C14: getAllPossibleMovesForTurn lists only pieces of the side to move,
\* each standing where the board has it, lists no piece with an empty
\* target list, and lists no king target adjacent to the other king.
C14_MovesForSideToMove ==
    pc = "allMoves" =>
      \A i \in 1..Len(ret) :
        LET e == ret[i] IN
        /\ board.currentTurn = "white"
             => (e.piece = "wK" /\ e.from = board.whiteKing /\ e.from # null)
        /\ board.currentTurn = "black"
             => \/ (e.piece = "bK" /\ e.from = board.blackKing /\ e.from # null)
                \/ (e.piece = "bN" /\ e.from \in {board.knight1, board.knight2} \ {null})
        /\ Len(e.to) > 0
        /\ (e.piece = "wK" /\ board.blackKing # null)
             => \A t \in Range(e.to) : Chebyshev(t, board.blackKing) # 1
        /\ (e.piece = "bK" /\ board.whiteKing # null)
             => \A t \in Range(e.to) : Chebyshev(t, board.whiteKing) # 1

\* C14 witness: Black to move on a legal board, a king target dropped
\* because it touches the White King, and a knight left out because both
\* its targets are taken.
C14_Witness ==
    /\ pc = "allMoves" /\ ValidBoard(board) /\ board.currentTurn = "black"
    /\ Len(ret) = 2
    /\ ret[1].piece = "bK"
    /\ \E t \in Neighbours(board.blackKing) :
          Chebyshev(t, board.whiteKing) = 1 /\ ~isOccupied(board, t)

\* C19: with White to move isCurrentPlayerInCheck returns true only if a
\* present knight has the White King's square among its knight moves; the
\* Black King next to the White King is not check.
C19_OnlyKnightsCheck ==
    (pc = "inCheck" /\ board.currentTurn = "white" /\ ret = TRUE)
        => /\ board.whiteKing # null
           /\ \/ (board.knight1 # null /\ KnightTarget(board.knight1, board.whiteKing))
              \/ (board.knight2 # null /\ KnightTarget(board.knight2, board.whiteKing))

\* C20: when both knights stand on one colour class, every square of
\* proofData.unattackableSquares is a neighbour of the White King of the
\* knights' colour that neither knight attacks, and the list holds every
\* escape square of the knights' colour that analyzeCheckmate finds.
C20_ProofDataUnattackable ==
    (/\ pc = "proofData"
     /\ board.knight1 # null /\ board.knight2 # null /\ board.whiteKing # null
     /\ SameColourKnights(board))
        => /\ \A s \in Range(ret.unattackableSquares) :
                /\ s \in Neighbours(board.whiteKing)
                /\ isLightSquare(s) = isLightSquare(board.knight1)
                /\ ~KnightTarget(board.knight1, s)
                /\ ~KnightTarget(board.knight2, s)
           /\ Complete(board)
                => OwnColourEscapes(board, analyzeCheckmate(board))
                     \subseteq Range(ret.unattackableSquares)

\* ------------------------------------ properties of attacks and notation
\* C17: getAttackedSquares(a, b) and getAttackedSquares(b, a) hold the same
\* set of squares, and neither list holds a square twice; a and b are any
\* squares or absent, a = b included.
C17_AttackedSymmetric ==
    pc = "attacked"
        => /\ Range(ret.ab) = Range(ret.ba)
           /\ Cardinality(Range(ret.ab)) = Len(ret.ab)
           /\ Cardinality(Range(ret.ba)) = Len(ret.ba)

\* C17 witness: two different knights that attack a common square, so the
\* two lists differ in order and a duplicate was dropped.
C17_Witness ==
    /\ pc = "attacked"
    /\ board.knight1 # null /\ board.knight2 # null /\ board.knight1 # board.knight2
    /\ ret.ab # ret.ba
    /\ Len(ret.ab) < Len(calculateKnightMoves(board.knight1))
                       + Len(calculateKnightMoves(board.knight2))

\* C18: positionFromSquare(squareFromPosition(c)) = c for every in-bounds
\* c, and squareFromPosition(c) is a letter a-h followed by a digit 1-8.
C18_NotationRoundTrip ==
    pc = "roundTrip"
        => /\ ret.position = coord
           /\ Len(ret.square) = 2
           /\ ret.square[1] \in 97..104
           /\ ret.square[2] \in 49..56

\* C18 witness: h8 written and read back.
C18_Witness == pc = "roundTrip" /\ coord = Pos(7, 7) /\ ret.square = <<104, 56>>

\* -------------------------------------------------- the page's board state
\* The squares the page's pieces stand on and are dropped on: a corner of
\* the board, files 0..MaxCoord and ranks 0..MaxPageRank.
PageRegion == {Pos(f, r) : f \in 0..MaxCoord, r \in 0..MaxPageRank} \cap AllSquares

PageBoards ==
    [whiteKing : PageRegion, blackKing : PageRegion,
     knight1 : PageRegion, knight2 : PageRegion,
     currentTurn : Turns]

\* The board state starts as any complete board of the corner with its
\* pieces on different squares and the kings apart.
InitPage ==
    /\ pc = "page"
    /\ board \in {b \in PageBoards : ValidBoard(b)}
    /\ result = noResult
    /\ coord = null
    /\ moves = <<>>
    /\ gen = genStart
    /\ ret = noRet
    /\ proofControlsStart

\* The squares a piece can be dropped on: those of the corner, or none when
\* the piece is dropped outside the board.
DropTargets == {squareFromPosition(p) : p \in PageRegion} \cup {noSquare}

\* A piece shown on the board is dragged and dropped; ret is the value
\* onDrop returned.
Drop ==
    /\ pc = "page"
    /\ \E sourceSquare \in DOMAIN boardPosition(board), targetSquare \in DropTargets :
          LET pieceType == boardPosition(board)[sourceSquare]
              dropped == onDrop(board, pieceType, sourceSquare, targetSquare)
          IN  /\ board' = dropped.boardState
              /\ ret' = <<dropped.accepted>>
    /\ UNCHANGED <<proofControls, pc, result, coord, moves, gen>>

handleSwitchTurn ==
    /\ pc = "page"
    /\ board' = [board EXCEPT !.currentTurn = switchTurn(board.currentTurn)]
    /\ ret' = noRet
    /\ UNCHANGED <<proofControls, pc, result, coord, moves, gen>>

handleResetToWhiteTurn ==
    /\ pc = "page"
    /\ board' = [board EXCEPT !.currentTurn = "white"]
    /\ ret' = noRet
    /\ UNCHANGED <<proofControls, pc, result, coord, moves, gen>>

NextPage == Drop \/ handleSwitchTurn \/ handleResetToWhiteTurn

SpecPage == InitPage /\ [][NextPage]_vars

\* ---------------------------------------------------- properties of the page
\* C15: from a complete board with its pieces in bounds, on different
\* squares and the kings apart, every sequence of drops (accepted or
\* rejected), turn switches and resets to White's turn leaves a board with
\* every piece in bounds, no two pieces on one square and the kings not
\* adjacent.
C15_PageKeepsBoardValid == pc = "page" => ValidBoard(board)

\* C15 witness: a king drop was accepted and left the kings two squares
\* apart, as near as the page permits.
C15_Witness ==
    /\ pc = "page"
    /\ ret = <<TRUE>>
    /\ board.currentTurn = "white"
    /\ Chebyshev(board.whiteKing, board.blackKing) = 2
    /\ board.blackKing = Pos(0, 0)

\* ------------------------------------------------------ one drop on the page
\* The boards the page can hold when a piece is dropped: generateRandomScenario
\* and accepted drops keep the kings on different squares and apart and the
\* knights on different squares; the fallback knights can stand on a king.
DropBoards ==
    {b \in PageBoards : /\ Chebyshev(b.whiteKing, b.blackKing) > 1
                        /\ b.knight1 # b.knight2}

InitDrop ==
    /\ pc = "page"
    /\ board \in DropBoards
    /\ result = noResult
    /\ coord = null
    /\ moves = <<>>
    /\ gen = genStart
    /\ ret = noRet
    /\ proofControlsStart

\* One call of onDrop for a piece shown on the board; ret keeps the
\* arguments, the value returned and the board state before the call.
OnDrop ==
    /\ pc = "page"
    /\ \E sourceSquare \in DOMAIN boardPosition(board), targetSquare \in DropTargets :
          LET pieceType == boardPosition(board)[sourceSquare]
              dropped == onDrop(board, pieceType, sourceSquare, targetSquare)
          IN  /\ board' = dropped.boardState
              /\ ret' = [pieceType |-> pieceType, sourceSquare |-> sourceSquare,
                         targetSquare |-> targetSquare,
                         accepted |-> dropped.accepted, prev |-> board]
    /\ pc' = "dropped"
    /\ UNCHANGED <<proofControls, result, coord, moves, gen>>

NextDrop == OnDrop

SpecDrop == InitDrop /\ [][NextDrop]_vars

\* ------------------------------------------------------ properties of a drop
\* The square a two-character text names.
SquareOf(text) == CHOOSE p \in AllSquares : text = <<97 + p.file, 49 + p.rank>>

PieceFields == {"whiteKing", "blackKing", "knight1", "knight2"}

KindOf(field) ==
    IF field = "whiteKing" THEN "wK" ELSE IF field = "blackKing" THEN "bK" ELSE "bN"

\* The side a piece type belongs to.
SideOf(pieceType) == IF pieceType = "wK" THEN "white" ELSE "black"

\* The reasons for which a drop must be refused, read off the recorded call.
DropWrongSide == SideOf(ret.pieceType) # ret.prev.currentTurn

DropNotShaped ==
    /\ ret.targetSquare # noSquare
    /\ LET from == SquareOf(ret.sourceSquare)
           to == SquareOf(ret.targetSquare)
       IN  IF ret.pieceType = "bN" THEN ~KnightTarget(from, to)
           ELSE Chebyshev(from, to) # 1

DropOntoPiece ==
    /\ ret.targetSquare # noSquare
    /\ \E f \in PieceFields : ret.prev[f] = SquareOf(ret.targetSquare)

DropNextToKing ==
    /\ ret.targetSquare # noSquare
    /\ ret.pieceType \in {"wK", "bK"}
    /\ LET otherKing == IF ret.pieceType = "wK" THEN ret.prev.blackKing
                        ELSE ret.prev.whiteKing
       IN  Chebyshev(SquareOf(ret.targetSquare), otherKing) = 1

\* C21: an accepted drop moves exactly one piece, the dropped one, from the
\* source square to the target square, leaves the other three where they
\* were and gives the turn to the other side; the moved piece belonged to
\* the side that was to move.
C21_AcceptedDropEffect ==
    (pc = "dropped" /\ ret.accepted)
        => LET changed == {f \in PieceFields : board[f] # ret.prev[f]}
           IN  /\ Cardinality(changed) = 1
               /\ \A f \in changed :
                     /\ KindOf(f) = ret.pieceType
                     /\ ret.prev[f] = SquareOf(ret.sourceSquare)
                     /\ board[f] = SquareOf(ret.targetSquare)
               /\ board.currentTurn \in Turns \ {ret.prev.currentTurn}
               /\ SideOf(ret.pieceType) = ret.prev.currentTurn

\* C21 witness: the second knight was dropped and accepted.
C21_Witness ==
    /\ pc = "dropped"
    /\ ret.accepted
    /\ ret.pieceType = "bN"
    /\ board.knight2 # ret.prev.knight2
    /\ board.currentTurn = "white"

\* C22: a drop of a piece of the side not to move, onto a square that is
\* not a king move (for a king) or a knight move (for a knight) from the
\* source, onto an occupied square, or of a king next to the other king, is
\* refused and leaves the four pieces and the turn as they were.
C22_RejectedDropNoEffect ==
    (pc = "dropped"
       /\ (DropWrongSide \/ DropNotShaped \/ DropOntoPiece \/ DropNextToKing))
        => (~ret.accepted /\ board = ret.prev)

\* C22 witness: a king of the side to move dropped on a free neighbouring
\* square next to the other king, and refused.
C22_Witness ==
    /\ pc = "dropped"
    /\ ~DropWrongSide /\ ~DropNotShaped /\ ~DropOntoPiece
    /\ DropNextToKing
    /\ ~ret.accepted

\* C25: a drop of a piece from the square it stands on to a square t is
\* accepted exactly when getAllPossibleMovesForTurn of the board before the
\* drop has an entry for that piece at that square whose targets contain t.
C25_DropAgreesWithPossibleMoves ==
    (pc = "dropped" /\ ret.targetSquare # noSquare)
        => LET all == getAllPossibleMovesForTurn(ret.prev)
               listed == \E i \in 1..Len(all) :
                            /\ all[i].piece = ret.pieceType
                            /\ all[i].from = SquareOf(ret.sourceSquare)
                            /\ SquareOf(ret.targetSquare) \in Range(all[i].to)
           IN  ret.accepted <=> listed

\* C25 witness: a knight standing on the White King's square is dropped on
\* a free square and accepted.
C25_Witness ==
    /\ pc = "dropped"
    /\ ret.accepted
    /\ ret.pieceType = "bN"
    /\ SquareOf(ret.sourceSquare) = ret.prev.whiteKing

\* --------------------------------- properties of the generator's retry loops
\* The draws a loop has made never exceed 100 while it can still go round,
\* and the board returned is complete.
RetryBounded ==
    /\ pc \in {"kings", "knights"} => gen.attempts <= 100
    /\ pc = "returned" => Complete(board)

\* Every pass of a loop counts one draw; a loop left on its 101st draw
\* leaves its fallback: kings d4 and h8, knights b2 and f6.
RetryStep ==
    /\ (pc = "kings" /\ pc' = "kings") => gen'.attempts = gen.attempts + 1
    /\ (pc = "knights" /\ pc' = "knights") => gen'.attempts = gen.attempts + 1
    /\ (pc = "kings" /\ pc' = "knights" /\ gen.attempts = 100)
         => (gen'.whiteKing = Pos(3, 3) /\ gen'.blackKing = Pos(7, 7))
    /\ (pc = "knights" /\ pc' = "returned" /\ gen.attempts = 100)
         => (board'.knight1 = Pos(1, 1) /\ board'.knight2 = Pos(5, 5))

\* C23: generateRandomScenario always returns a board: each of its loops
\* draws at most 101 pairs, accepts a pair only within the first 100 draws
\* and on the 101st draw takes its fallback (kings d4 and h8, knights b2
\* and f6) and leaves the loop.
C23_GeneratorTerminates ==
    /\ []RetryBounded
    /\ [][RetryStep]_vars
    /\ <>(pc = "returned")

\* C23 witness: both loops ran out of draws and the board returned holds
\* both fallbacks.
C23_Witness ==
    /\ pc = "returned"
    /\ board.whiteKing = Pos(3, 3) /\ board.blackKing = Pos(7, 7)
    /\ board.knight1 = Pos(1, 1) /\ board.knight2 = Pos(5, 5)

\* -------------------------------------------- getPossibleMoves on any piece
\* The board argument: each piece on a square of the page's corner or
\* absent.  getPossibleMoves does not read currentTurn, which is left at
\* "white".
PossibleMovesBoards ==
    [whiteKing : PageRegion \cup {null}, blackKing : PageRegion \cup {null},
     knight1 : PageRegion \cup {null}, knight2 : PageRegion \cup {null},
     currentTurn : {"white"}]

InitMoves ==
    /\ pc = "ready"
    /\ board \in PossibleMovesBoards
    /\ result = noResult
    /\ coord = null
    /\ moves = <<>>
    /\ gen = genStart
    /\ ret = noRet
    /\ proofControlsStart

\* getPossibleMoves for a piece kind and a square of the corner, whether or
\* not such a piece stands there.
PossibleMoves ==
    /\ pc = "ready"
    /\ \E pieceType \in {"wK", "bK", "bN"}, position \in PageRegion :
          /\ coord' = position
          /\ ret' = pieceType
          /\ moves' = getPossibleMoves(pieceType, position, board)
    /\ pc' = "possibleMoves"
    /\ UNCHANGED <<proofControls, board, result, gen>>

NextMoves == PossibleMoves

SpecMoves == InitMoves /\ [][NextMoves]_vars

\* ------------------------------------------- properties of getPossibleMoves
\* The squares a piece kind reaches from a square by its shape alone.
ShapeTargets(pieceType, from) ==
    IF pieceType = "bN" THEN {t \in AllSquares : KnightTarget(from, t)}
    ELSE Neighbours(from)

\* The squares the pieces of a board stand on.
Occupied(b) == {b.whiteKing, b.blackKing, b.knight1, b.knight2} \ {null}

\* C24: getPossibleMoves returns exactly the piece's geometric targets that
\* no piece of the board stands on and that, for a king, are not next to
\* the other king when it is present; knights are not filtered by the
\* kings' adjacency and squares attacked by knights stay among the White
\* King's targets.
C24_PossibleMovesExact ==
    pc = "possibleMoves"
        => LET otherKing == IF ret = "wK" THEN board.blackKing ELSE board.whiteKing
               nextToOtherKing(t) ==
                   ret \in {"wK", "bK"} /\ otherKing # null /\ Chebyshev(t, otherKing) = 1
           IN  Range(moves) = {t \in ShapeTargets(ret, coord) :
                                  t \notin Occupied(board) /\ ~nextToOtherKing(t)}

\* C24 witness: the White King, with the Black King present, is given a
\* target that a knight attacks, while another neighbour is withheld for
\* being next to the Black King.
C24_Witness ==
    /\ pc = "possibleMoves"
    /\ ret = "wK"
    /\ coord = board.whiteKing
    /\ ValidBoard(board)
    /\ \E t \in Range(moves) : KnightTarget(board.knight1, t)
    /\ \E t \in Neighbours(coord) \ Occupied(board) : t \notin Range(moves)

\* ------------------------------------------- areKingsAdjacent on two squares
InitAdjacent ==
    /\ pc = "ready"
    /\ \E a \in AllSquares, b \in AllSquares :
          board = [noBoard EXCEPT !.whiteKing = a, !.blackKing = b]
    /\ result = noResult
    /\ coord = null
    /\ moves = <<>>
    /\ gen = genStart
    /\ ret = noRet
    /\ proofControlsStart

\* areKingsAdjacent called on the two squares in both orders, and
\* calculateKingMoves on the first.
KingsAdjacent ==
    /\ pc = "ready"
    /\ ret' = [ab |-> areKingsAdjacent(board.whiteKing, board.blackKing),
               ba |-> areKingsAdjacent(board.blackKing, board.whiteKing)]
    /\ moves' = calculateKingMoves(board.whiteKing)
    /\ pc' = "adjacent"
    /\ UNCHANGED <<proofControls, board, result, coord, gen>>

NextAdjacent == KingsAdjacent

SpecAdjacent == InitAdjacent /\ [][NextAdjacent]_vars

\* ------------------------------------- properties of moves and adjacency
\* C26: calculateKnightMoves(c) holds exactly the in-bounds squares whose
\* file and rank differ from c by 1 and 2 in some order, calculateKingMoves(c)
\* exactly the in-bounds squares at Chebyshev distance 1; neither holds an
\* out-of-bounds coordinate, c itself or a coordinate twice.
C26_MovesExact ==
    /\ pc = "knightMoves" => Range(moves) = {t \in AllSquares : KnightTarget(coord, t)}
    /\ pc = "kingMoves" => Range(moves) = Neighbours(coord)
    /\ pc \in {"knightMoves", "kingMoves"}
         => /\ Range(moves) \subseteq AllSquares
            /\ coord \notin Range(moves)
            /\ Cardinality(Range(moves)) = Len(moves)

\* C26 witness: the king moves from the corner h8, five of the eight
\* offsets falling off the board.
C26_Witness == pc = "kingMoves" /\ coord = Pos(7, 7) /\ Len(moves) = 3

\* C27: for in-bounds a and b, areKingsAdjacent(a, b) is true exactly when
\* the larger of the file and rank distances is 1; it is false for a = b,
\* takes the same value on (b, a), and agrees with b being among
\* calculateKingMoves(a).
C27_AdjacentIsChebyshevOne ==
    pc = "adjacent"
        => /\ ret.ab <=> (Chebyshev(board.whiteKing, board.blackKing) = 1)
           /\ board.whiteKing = board.blackKing => ~ret.ab
           /\ ret.ab <=> ret.ba
           /\ ret.ab <=> (board.blackKing \in Range(moves))

\* C27 witness: two squares touching at a corner only.
C27_Witness ==
    /\ pc = "adjacent"
    /\ ret.ab
    /\ board.whiteKing.file # board.blackKing.file
    /\ board.whiteKing.rank # board.blackKing.rank

\* ---------------------------------------------- the page's proof controls
\* PROOF_STEPS.length
ProofStepCount == 4

\* The page after construction: a board from generateRandomScenario (kings
\* apart, knights on different squares, White to move) and the proof
\* controls at their useState values.
InitControls ==
    /\ pc = "page"
    /\ board \in {b \in DropBoards : b.currentTurn = "white"}
    /\ result = noResult
    /\ coord = null
    /\ moves = <<>>
    /\ gen = genStart
    /\ ret = noRet
    /\ proofControlsStart

\* The interval callback, which runs every second while isAutoPlaying.
TimerTick ==
    /\ isAutoPlaying
    /\ LET newValue == timeRemaining - 1
       IN  IF newValue <= 0
           THEN /\ currentStep' = (currentStep + 1) % ProofStepCount
                /\ timeRemaining' = 3
           ELSE /\ timeRemaining' = newValue
                /\ UNCHANGED currentStep
    /\ UNCHANGED <<pc, board, result, coord, moves, gen, ret,
                   isAutoPlaying, showProofSteps>>

\* The prev and next buttons, rendered while the proof steps are shown.
handleStepNavigation ==
    /\ showProofSteps
    /\ \E direction \in {"prev", "next"} :
          currentStep' = IF direction = "prev"
                         THEN (IF currentStep = 0 THEN ProofStepCount - 1
                               ELSE currentStep - 1)
                         ELSE (currentStep + 1) % ProofStepCount
    /\ isAutoPlaying' = FALSE
    /\ timeRemaining' = 3
    /\ UNCHANGED <<pc, board, result, coord, moves, gen, ret, showProofSteps>>

\* toggleAutoPlay that does not look at showProofSteps.
toggleAutoPlay_unguarded ==
    /\ isAutoPlaying' = ~isAutoPlaying
    /\ timeRemaining' = 3
    /\ UNCHANGED <<pc, board, result, coord, moves, gen, ret,
                   currentStep, showProofSteps>>

\* The autoplay button.  Turning autoplay on resets the timer in the
\* handler, turning it off resets it in the effect on isAutoPlaying.
toggleAutoPlay ==
    /\ showProofSteps
    /\ isAutoPlaying' = ~isAutoPlaying
    /\ timeRemaining' = 3
    /\ UNCHANGED <<pc, board, result, coord, moves, gen, ret,
                   currentStep, showProofSteps>>

\* The proof ON/OFF button.
toggleProofSteps ==
    /\ showProofSteps' = ~showProofSteps
    /\ IF showProofSteps
       THEN isAutoPlaying' = FALSE /\ timeRemaining' = 3
       ELSE UNCHANGED <<isAutoPlaying, timeRemaining>>
    /\ UNCHANGED <<pc, board, result, coord, moves, gen, ret, currentStep>>

\* A click on one of the listed proof steps, rendered while they are shown.
selectStep ==
    /\ showProofSteps
    /\ \E index \in 0..(ProofStepCount - 1) : currentStep' = index
    /\ isAutoPlaying' = FALSE
    /\ timeRemaining' = 3
    /\ UNCHANGED <<pc, board, result, coord, moves, gen, ret, showProofSteps>>

\* The button that starts the proof from its first step.
restartProof ==
    /\ currentStep' = 0
    /\ timeRemaining' = 3
    /\ UNCHANGED <<pc, board, result, coord, moves, gen, ret,
                   isAutoPlaying, showProofSteps>>

NextControls ==
    \/ TimerTick \/ handleStepNavigation \/ toggleAutoPlay
    \/ toggleProofSteps \/ selectStep \/ restartProof

SpecControls == InitControls /\ [][NextControls]_vars

\* ------------------------------------------ properties of the proof controls
\* C28: whatever the timer ticks, prev/next presses, step clicks, autoplay
\* toggles, proof on/off toggles and restarts, autoplay is on only while
\* the proof steps are shown, and currentStep stays within 0..3.
C28_AutoPlayOnlyWhenShown ==
    /\ isAutoPlaying => showProofSteps
    /\ currentStep \in 0..3

\* C28 witness: autoplay is running on the shown proof, one second before
\* it leaves the last step.
C28_Witness ==
    /\ isAutoPlaying
    /\ showProofSteps
    /\ timeRemaining = 1
    /\ currentStep = 3

====
